---- MODULE Spec2Model ----
(***************************************************************************)
(* CSpxUspRecoEngineAdapter (source/core/sr/usp_reco_engine_adapter.cpp):  *)
(* the buffered audio writer, the lifecycle (Init / Term) and the dispatch *)
(* of the transport's callbacks to the site.                               *)
(*                                                                         *)
(* The transport (::UspInit, ::UspWriteAudio, ::UspClose, ...) and the     *)
(* site are the environment: every transport call is logged, its result is *)
(* an input of the step. A byte of the audio stream is a record            *)
(*   [v |-> the byte's value, id |-> serial number, ep |-> session],       *)
(* where id and ep are history fields: id numbers the bytes in the order   *)
(* the writer accepted them, ep is the handle the adapter held then.       *)
(***************************************************************************)
EXTENDS Integers, Sequences, FiniteSets, TLC

\* ------------------------------------------------------------------ bounds
MaxLife == 3         \* calls of Init / Term in a run
MaxWrites == 3       \* calls of SetFormat / ProcessAudio in a run
MaxAudio == 2        \* largest size of one ProcessAudio call
MaxFail == 1         \* transport calls that fail in a run
MaxMsgs == 2         \* protocol messages the transport delivers in a run
MaxSendIdx == 2      \* a failing send is the 1st..MaxSendIdx-th send of its call

\* ------------------------------------------------------- program constants
INVALID_USP_HANDLE == -1
NULLPTR == -1
m_fUseBufferedImplementation == TRUE
m_servicePreferedMilliseconds == 100
sizeofWAVEFORMAT == 16        \* sizeof(WAVEFORMAT), line 263: the fields up to wBitsPerSample
cbTag == 4
cbChunkType == 4
cbChunkSize == 4

SPX_NOERROR == "SPX_NOERROR"
USP_WRITE_AUDIO_ERROR == "USP_WRITE_AUDIO_ERROR"
USP_OTHER_ERROR == "USP_OTHER_ERROR"
SPXERR_UNINITIALIZED == "SPXERR_UNINITIALIZED"
SPXERR_ALREADY_INITIALIZED == "SPXERR_ALREADY_INITIALIZED"

Min(a, b) == IF a < b THEN a ELSE b

\* ------------------------------------------------------------ audio formats
\* WAVEFORMATEX descriptors offered to SetFormat. With 100 ms per buffer the
\* capacities are 2, 3 and 0 bytes.
FmtA == [wFormatTag |-> 1, nChannels |-> 1, nSamplesPerSec |-> 20, nAvgBytesPerSec |-> 20,
         nBlockAlign |-> 1, wBitsPerSample |-> 8, cbSize |-> 0, extra |-> <<>>]
FmtB == [wFormatTag |-> 1, nChannels |-> 1, nSamplesPerSec |-> 15, nAvgBytesPerSec |-> 30,
         nBlockAlign |-> 2, wBitsPerSample |-> 16, cbSize |-> 0, extra |-> <<>>]
FmtZ == [wFormatTag |-> 1, nChannels |-> 1, nSamplesPerSec |-> 9, nAvgBytesPerSec |-> 9,
         nBlockAlign |-> 1, wBitsPerSample |-> 8, cbSize |-> 0, extra |-> <<>>]
\* 16 kHz, 16-bit mono PCM: 3200 bytes per 100 ms.
FmtPcm16k == [wFormatTag |-> 1, nChannels |-> 1, nSamplesPerSec |-> 16000,
              nAvgBytesPerSec |-> 32000, nBlockAlign |-> 2, wBitsPerSample |-> 16,
              cbSize |-> 0, extra |-> <<>>]
\* An extended descriptor: two bytes follow the WAVEFORMATEX; 5 bytes per 100 ms.
FmtExt == [wFormatTag |-> 2, nChannels |-> 1, nSamplesPerSec |-> 50, nAvgBytesPerSec |-> 50,
           nBlockAlign |-> 1, wBitsPerSample |-> 8, cbSize |-> 2, extra |-> <<7, 9>>]
\* A WAVEFORMATEX* is an index of this table, or nullptr.
FormatTable == << FmtA, FmtB, FmtZ, FmtPcm16k, FmtExt >>
nullptr == 0
pFmtA == 1
pFmtB == 2
pFmtZ == 3
pFmtPcm16k == 4
pFmtExt == 5
SmallFormats == {nullptr, pFmtA, pFmtB, pFmtZ}

\* SetFormat, line 60: the preferred buffer size of a format.
PreferedBufferSize(pformat) ==
    (pformat.nSamplesPerSec * pformat.nBlockAlign * m_servicePreferedMilliseconds) \div 1000

\* --------------------------------------------------------- header synthesis
LE16(n) == << n % 256, (n \div 256) % 256 >>
LE32(n) == << n % 256, (n \div 256) % 256, (n \div 65536) % 256, (n \div 16777216) % 256 >>

\* The bytes of a WAVEFORMATEX in memory, followed by its cbSize extra bytes.
FormatMemory(pformat) ==
    LE16(pformat.wFormatTag) \o LE16(pformat.nChannels) \o LE32(pformat.nSamplesPerSec)
    \o LE32(pformat.nAvgBytesPerSec) \o LE16(pformat.nBlockAlign)
    \o LE16(pformat.wBitsPerSample) \o LE16(pformat.cbSize) \o pformat.extra

FormatBufferWriteBytes(buffer, source, bytes) == buffer \o SubSeq(source, 1, bytes)
FormatBufferWriteNumber(buffer, number) == buffer \o LE32(number)
FormatBufferWriteChars(buffer, psz, cch) == buffer \o SubSeq(psz, 1, cch)

TagRIFF == <<82, 73, 70, 70>>
TagWAVE == <<87, 65, 86, 69>>
TagFmt == <<102, 109, 116, 32>>
TagData == <<100, 97, 116, 97>>

cbFormatChunk(pformat) == sizeofWAVEFORMAT + pformat.cbSize
cbHeader(pformat) ==
    cbTag + cbChunkSize + cbChunkType + cbChunkType + cbChunkSize
    + cbFormatChunk(pformat) + cbChunkType + cbChunkSize

\* UspWriteFormat, lines 263-292: the header's byte values.
HeaderBytes(pformat) ==
    LET p1 == FormatBufferWriteChars(<<>>, TagRIFF, cbTag)
        p2 == FormatBufferWriteNumber(p1, 0)
        p3 == FormatBufferWriteChars(p2, TagWAVE, cbChunkType)
        p4 == FormatBufferWriteChars(p3, TagFmt, cbChunkType)
        p5 == FormatBufferWriteNumber(p4, cbFormatChunk(pformat))
        p6 == FormatBufferWriteBytes(p5, FormatMemory(pformat), cbFormatChunk(pformat))
        p7 == FormatBufferWriteChars(p6, TagData, cbChunkType)
    IN  FormatBufferWriteNumber(p7, 0)

\* The values of the bytes a ProcessAudio call of the given size carries.
AudioBytes(size) == [i \in 1..size |-> 200 + i]

\* Values tagged with their serial numbers (from first) and session.
Tagged(values, first, ep) ==
    [i \in 1..Len(values) |-> [v |-> values[i], id |-> first + i - 1, ep |-> ep]]

Garbage == [v |-> 0, id |-> 0, ep |-> 0]

\* -------------------------------------------------------------- the writer
\* A writer state w holds the adapter's buffer fields and, for the call under
\* way: tx, the ::UspWriteAudio calls it has made; plan, the transport's
\* results ([at |-> index of the failing call or 0, hr |-> its result]);
\* threw (an exception left the call); hung (the loop cannot end);
\* hfile (the adapter's m_hfile): one of HfileAfterNew (the constructor does not
\* set it), "open" (DumpFileInit) or "null" (DumpFileInit when the file cannot be
\* opened, DumpFileClose); crashed: the process died.

NullBuffer == [isNull |-> TRUE, mem |-> <<>>]

\* The constructor (lines 23-28) does not initialise m_hfile: a read of it before
\* DumpFileInit or DumpFileClose has assigned it yields what the adapter's memory
\* held, either no stream (nullptr: fwrite and fclose die) or the stream of a
\* deleted adapter that was at that place: fwrite works on it, and fclose works on
\* it when that adapter had left it open and dies when it had closed it.
HfileAfterNew == {"unassigned-null", "unassigned-stream"}

\* m_hfile, as read, is a stream fwrite and fclose can work on.
IsStream(hfile) == hfile \in {"open", "unassigned-stream"}

\* DumpFileInit, lines 492-500: PAL::fopen_s(&m_hfile, ...), its result ignored;
\* m_hfile is the stream, or nullptr when the file could not be opened.
DumpFileInit(opened) == IF opened THEN "open" ELSE "null"

\* DumpFileWrite, lines 502-505: fwrite(buffer, 1, bytesToWrite, m_hfile). With no
\* byte to write fwrite returns at once; with bytes to write and no stream the
\* process dies.
DumpFileWrite(hfile, bytesToWrite) == bytesToWrite > 0 /\ ~IsStream(hfile)

\* DumpFileClose, lines 507-511: fclose(m_hfile); m_hfile = nullptr. The outcomes
\* of the call: with no stream the process dies in fclose; with the stream
\* DumpFileInit opened fclose returns; with a deleted adapter's stream it does
\* either.
DumpFileClose(hfile) ==
    LET closed == [crashed |-> FALSE, hfile |-> "null"]
        died == [crashed |-> TRUE, hfile |-> hfile]
    IN  IF hfile = "open" THEN {closed}
        ELSE IF IsStream(hfile) THEN {closed, died}
        ELSE {died}

SpxAllocSharedUint8Buffer(size) == [isNull |-> FALSE, mem |-> [i \in 1..size |-> Garbage]]

TransportResult(w) ==
    IF w.plan.at = Len(w.tx) + 1 THEN w.plan.hr ELSE SPX_NOERROR

\* A writer that makes no transport call for zero bytes.
UspWrite_Actual_SkipEmpty(w, handle, buffer) ==
    IF Len(buffer) = 0 THEN w
    ELSE [w EXCEPT !.tx = Append(@, [h |-> handle, bytes |-> buffer, hr |-> TransportResult(w)]),
                   !.crashed = DumpFileWrite(w.hfile, Len(buffer)),
                   !.threw = (~DumpFileWrite(w.hfile, Len(buffer))
                              /\ TransportResult(w) # SPX_NOERROR)]

\* UspWrite_Actual, lines 310-321: the send, the dump file write (line 318), then
\* the throw on a failed send.
UspWrite_Actual(w, handle, buffer) ==
    LET hr0 == TransportResult(w)
        hr == IF Len(buffer) = 0 /\ hr0 = USP_WRITE_AUDIO_ERROR THEN SPX_NOERROR ELSE hr0
        died == DumpFileWrite(w.hfile, Len(buffer))
    IN  [w EXCEPT !.tx = Append(@, [h |-> handle, bytes |-> buffer, hr |-> hr0]),
                  !.crashed = died,
                  !.threw = (~died /\ hr # SPX_NOERROR)]

\* std::memcpy(m_ptrIntoBuffer, buffer, bytesThisLoop), line 361.
MemCopy(mem, ptr, buffer, n) ==
    [i \in 1..Len(mem) |-> IF i > ptr /\ i <= ptr + n THEN buffer[i - ptr] ELSE mem[i]]

\* UspWrite_Buffered, lines 336-366: the loop. buffer is the caller's pointer, which
\* the loop never advances; bytesToWrite is what is left to write.
RECURSIVE BufferedLoop(_, _, _, _, _)
BufferedLoop(w, handle, buffer, bytesToWrite, flushBuffer) ==
    LET full == w.m_bytesInBuffer > 0 /\ w.m_bytesLeftInBuffer = 0
        w1 == IF flushBuffer \/ full
              THEN UspWrite_Actual(w, handle,
                       SubSeq(w.m_buffer.mem, 1, w.m_bytesInBuffer - w.m_bytesLeftInBuffer))
              ELSE w
        w2 == IF flushBuffer \/ full
              THEN [w1 EXCEPT !.m_bytesLeftInBuffer = w1.m_bytesInBuffer,
                              !.m_ptrIntoBuffer = 0]
              ELSE w1
        w3 == IF flushBuffer
              THEN [w2 EXCEPT !.m_buffer = NullBuffer, !.m_bytesInBuffer = 0,
                              !.m_ptrIntoBuffer = NULLPTR, !.m_bytesLeftInBuffer = 0]
              ELSE w2
        bytesThisLoop == Min(bytesToWrite, w3.m_bytesLeftInBuffer)
        w4 == [w3 EXCEPT !.m_buffer.mem = MemCopy(@, w3.m_ptrIntoBuffer, buffer, bytesThisLoop),
                         !.m_ptrIntoBuffer = @ + bytesThisLoop,
                         !.m_bytesLeftInBuffer = @ - bytesThisLoop]
    IN  IF w1.threw \/ w1.crashed THEN w1
        ELSE IF bytesToWrite = 0 THEN w3
        ELSE IF bytesThisLoop = 0 /\ w3.m_bytesInBuffer = 0 THEN [w3 EXCEPT !.hung = TRUE]
        ELSE BufferedLoop(w4, handle, buffer, bytesToWrite - bytesThisLoop, flushBuffer)

\* A writer that takes no more of a write than the buffer has room for.
UspWrite_Buffered_DropOverflow(w, handle, buffer) ==
    LET w0 == IF w.m_buffer.isNull
              THEN [w EXCEPT !.m_buffer = SpxAllocSharedUint8Buffer(w.m_servicePreferedBufferSize),
                             !.m_bytesInBuffer = w.m_servicePreferedBufferSize,
                             !.m_ptrIntoBuffer = 0,
                             !.m_bytesLeftInBuffer = w.m_servicePreferedBufferSize]
              ELSE w
        n == IF w0.m_bytesLeftInBuffer > 0 THEN Min(Len(buffer), w0.m_bytesLeftInBuffer)
             ELSE Len(buffer)
    IN  BufferedLoop(w0, handle, SubSeq(buffer, 1, n), n, Len(buffer) = 0)

\* A writer whose cursor stays at the start of the buffer.
UspWrite_Buffered_CursorAtStart(w, handle, buffer) ==
    LET w0 == IF w.m_buffer.isNull
              THEN [w EXCEPT !.m_buffer = SpxAllocSharedUint8Buffer(w.m_servicePreferedBufferSize),
                             !.m_bytesInBuffer = w.m_servicePreferedBufferSize,
                             !.m_ptrIntoBuffer = 0,
                             !.m_bytesLeftInBuffer = w.m_servicePreferedBufferSize]
              ELSE w
        r == BufferedLoop(w0, handle, buffer, Len(buffer), Len(buffer) = 0)
    IN  IF r.m_buffer.isNull \/ r.crashed THEN r ELSE [r EXCEPT !.m_ptrIntoBuffer = 0]

\* UspWrite_Buffered, lines 323-367.
UspWrite_Buffered(w, handle, buffer) ==
    LET bytesToWrite == Len(buffer)
        flushBuffer == bytesToWrite = 0
        w0 == IF w.m_buffer.isNull
              THEN [w EXCEPT !.m_buffer = SpxAllocSharedUint8Buffer(w.m_servicePreferedBufferSize),
                             !.m_bytesInBuffer = w.m_servicePreferedBufferSize,
                             !.m_ptrIntoBuffer = 0,
                             !.m_bytesLeftInBuffer = w.m_servicePreferedBufferSize]
              ELSE w
    IN  BufferedLoop(w0, handle, buffer, bytesToWrite, flushBuffer)

\* UspWrite_Flush, lines 369-372.
UspWrite_Flush(w, handle) == UspWrite_Buffered(w, handle, <<>>)

\* UspWrite, lines 299-308.
UspWrite(w, handle, buffer) ==
    IF ~m_fUseBufferedImplementation \/ w.m_servicePreferedBufferSize = 0
    THEN UspWrite_Actual(w, handle, buffer)
    ELSE UspWrite_Buffered(w, handle, buffer)


\* ------------------------------------------------------ endpoint resolution
\* Property sets the site offers at Init; GetStringValue of an unset name is "".
Props1 == [n \in {"SPEECH-SubscriptionKey"} |-> "key"]
Props2 == [n \in {"SPEECH-Endpoint", "SPEECH-AuthToken", "SPEECH-RecoLanguage"} |->
             CASE n = "SPEECH-Endpoint" -> "cortana"
               [] n = "SPEECH-AuthToken" -> "token"
               [] OTHER -> "en-US"]
Props3 == [n \in {"SPEECH-Endpoint", "SPEECH-RpsToken", "SPEECH-RecoMode"} |->
             CASE n = "SPEECH-Endpoint" -> "wss://custom"
               [] n = "SPEECH-RpsToken" -> "rps"
               [] OTHER -> "bogus"]
Props4 == [n \in {"CUSTOMSPEECH-modelId", "CUSTOMSPEECH-ModelId", "SPEECH-SubscriptionKey",
                  "SPEECH-RecoMode"} |->
             CASE n = "SPEECH-SubscriptionKey" -> "key"
               [] n = "SPEECH-RecoMode" -> "Dictation"
               [] OTHER -> "m1"]
PropSets == {Props1, Props2, Props3, Props4}

\* The property names the adapter reads, and every assignment of them drawn from
\* a few values each ("": not set).
PropNames == {"SPEECH-Endpoint", "SPEECH-SubscriptionKey", "SPEECH-AuthToken",
              "SPEECH-RpsToken", "SPEECH-RecoMode", "SPEECH-RecoLanguage",
              "CUSTOMSPEECH-modelId", "CUSTOMSPEECH-ModelId"}
PropsOf(endpoint, key, token, rps, mode, language, crisId, modelId) ==
    [n \in PropNames |->
        CASE n = "SPEECH-Endpoint" -> endpoint
          [] n = "SPEECH-SubscriptionKey" -> key
          [] n = "SPEECH-AuthToken" -> token
          [] n = "SPEECH-RpsToken" -> rps
          [] n = "SPEECH-RecoMode" -> mode
          [] n = "SPEECH-RecoLanguage" -> language
          [] n = "CUSTOMSPEECH-modelId" -> crisId
          [] OTHER -> modelId]
AllProperties ==
    {PropsOf(endpoint, key, token, rps, mode, language, crisId, modelId) :
        endpoint \in {"", "Cortana", "CORTANA", "wss://custom"},
        key \in {"", "key"}, token \in {"", "token"}, rps \in {"", "rps"},
        mode \in {"", "Interactive", "conversation", "DICTATION", "bogus"},
        language \in {"", "en-US"}, crisId \in {"", "m1"}, modelId \in {"", "m2"}}

GetStringValue(properties, name) ==
    IF name \in DOMAIN properties THEN properties[name] ELSE ""

\* Upper-casing of the strings the property sets hold.
ToUpper(s) ==
    CASE s = "cortana" -> "CORTANA"
      [] s = "Cortana" -> "CORTANA"
      [] s = "interactive" -> "INTERACTIVE"
      [] s = "Interactive" -> "INTERACTIVE"
      [] s = "conversation" -> "CONVERSATION"
      [] s = "Conversation" -> "CONVERSATION"
      [] s = "dictation" -> "DICTATION"
      [] s = "Dictation" -> "DICTATION"
      [] OTHER -> s
wcsicmp(a, b) == IF ToUpper(a) = ToUpper(b) THEN 0 ELSE 1

\* A resolution that looks at the endpoint property before the custom model id.
GetUspEndpointType_EndpointFirst(properties) ==
    LET endpoint == GetStringValue(properties, "SPEECH-Endpoint")
        customSpeechModelId == GetStringValue(properties, "CUSTOMSPEECH-modelId")
    IN  IF wcsicmp(endpoint, "CORTANA") = 0 THEN "USP_ENDPOINT_CDSDK"
        ELSE IF endpoint # "" THEN "USP_ENDPOINT_UNKNOWN"
        ELSE IF customSpeechModelId # "" THEN "USP_ENDPOINT_CRIS"
        ELSE "USP_ENDPOINT_BING_SPEECH"

\* GetUspEndpointType, lines 116-147.
GetUspEndpointType(properties) ==
    LET endpoint == GetStringValue(properties, "SPEECH-Endpoint")
        customSpeechModelId == GetStringValue(properties, "CUSTOMSPEECH-modelId")
    IN  IF customSpeechModelId # "" THEN "USP_ENDPOINT_CRIS"
        ELSE IF wcsicmp(endpoint, "CORTANA") = 0 THEN "USP_ENDPOINT_CDSDK"
        ELSE IF endpoint # "" THEN "USP_ENDPOINT_UNKNOWN"
        ELSE "USP_ENDPOINT_BING_SPEECH"

\* GetUspCustomEndpoint, lines 149-161.
GetUspCustomEndpoint(properties) == GetStringValue(properties, "SPEECH-Endpoint")

\* GetUspRecoMode, lines 163-196.
GetUspRecoMode(properties) ==
    LET value == GetStringValue(properties, "SPEECH-RecoMode")
    IN  IF value = "" \/ wcsicmp(value, "INTERACTIVE") = 0 THEN "USP_RECO_MODE_INTERACTIVE"
        ELSE IF wcsicmp(value, "CONVERSATION") = 0 THEN "USP_RECO_MODE_CONVERSATION"
        ELSE IF wcsicmp(value, "DICTATION") = 0 THEN "USP_RECO_MODE_DICTATION"
        ELSE "USP_RECO_MODE_UNKNOWN"

\* GetUspLanguage, lines 198-207.
GetUspLanguage(properties) == GetStringValue(properties, "SPEECH-RecoLanguage")

\* GetUspModelId, lines 209-218.
GetUspModelId(properties) == GetStringValue(properties, "CUSTOMSPEECH-ModelId")

\* A resolution that prefers the authorization token to the subscription key.
GetUspAuthenticationData_TokenFirst(properties) ==
    LET uspSubscriptionKey == GetStringValue(properties, "SPEECH-SubscriptionKey")
        uspAuthToken == GetStringValue(properties, "SPEECH-AuthToken")
        uspRpsToken == GetStringValue(properties, "SPEECH-RpsToken")
    IN  IF uspAuthToken # ""
        THEN [authType |-> "USP_AUTHENTICATION_AUTHORIZATION_TOKEN", authData |-> uspAuthToken]
        ELSE IF uspSubscriptionKey # ""
        THEN [authType |-> "USP_AUTHENTICATION_SUBSCRIPTION_KEY", authData |-> uspSubscriptionKey]
        ELSE IF uspRpsToken # ""
        THEN [authType |-> "USP_AUTHENTICATION_SEARCH_DELEGATION_RPS_TOKEN",
              authData |-> uspRpsToken]
        ELSE [authType |-> "USP_AUTHENTICATION_UNKNOWN", authData |-> ""]

\* GetUspAuthenticationData, lines 220-254: the type and the data.
GetUspAuthenticationData(properties) ==
    LET uspSubscriptionKey == GetStringValue(properties, "SPEECH-SubscriptionKey")
        uspAuthToken == GetStringValue(properties, "SPEECH-AuthToken")
        uspRpsToken == GetStringValue(properties, "SPEECH-RpsToken")
    IN  IF uspSubscriptionKey # ""
        THEN [authType |-> "USP_AUTHENTICATION_SUBSCRIPTION_KEY", authData |-> uspSubscriptionKey]
        ELSE IF uspAuthToken # ""
        THEN [authType |-> "USP_AUTHENTICATION_AUTHORIZATION_TOKEN", authData |-> uspAuthToken]
        ELSE IF uspRpsToken # ""
        THEN [authType |-> "USP_AUTHENTICATION_SEARCH_DELEGATION_RPS_TOKEN",
              authData |-> uspRpsToken]
        ELSE [authType |-> "USP_AUTHENTICATION_UNKNOWN", authData |-> ""]

\* A transport call of UspInitialize with its result: the failAt-th call fails.
InitCall(u, call, failAt) ==
    [fn |-> call.fn, a |-> call.a, b |-> call.b,
     hr |-> IF Len(u.calls) + 1 = failAt THEN USP_OTHER_ERROR ELSE SPX_NOERROR]

\* A step that goes on after a failed call.
InitStep_NoThrow(u, doCall, call, failAt) ==
    IF ~doCall THEN u
    ELSE [u EXCEPT !.calls = Append(@, InitCall(u, call, failAt)),
                   !.failed = (u.failed \/ Len(u.calls) + 1 = failAt)]

\* One transport call of UspInitialize: made, and appended with its result to the
\* calls made so far, unless an earlier call failed (SPX_IFFAILED_THROW_HR).
InitStep(u, doCall, call, failAt) ==
    IF u.failed \/ ~doCall THEN u
    ELSE [u EXCEPT !.calls = Append(@, InitCall(u, call, failAt)),
                   !.failed = (Len(u.calls) + 1 = failAt)]

\* UspInitialize, lines 78-114: the transport calls it makes, in order, and
\* whether one of them failed (SPX_IFFAILED_THROW_HR).
UspInitialize(properties, failAt) ==
    LET type == GetUspEndpointType(properties)
        auth == GetUspAuthenticationData(properties)
        language == GetUspLanguage(properties)
        id == GetUspModelId(properties)
        u0 == [calls |-> <<>>, failed |-> FALSE]
        u1 == InitStep(u0, TRUE,
                  IF type = "USP_ENDPOINT_UNKNOWN"
                  THEN [fn |-> "UspInitByUrl", a |-> GetUspCustomEndpoint(properties), b |-> ""]
                  ELSE [fn |-> "UspInit", a |-> type, b |-> GetUspRecoMode(properties)],
                  failAt)
        u2 == InitStep(u1, auth.authType # "USP_AUTHENTICATION_UNKNOWN",
                  [fn |-> "UspSetAuthentication", a |-> auth.authType, b |-> auth.authData], failAt)
        u3 == InitStep(u2, language # "", [fn |-> "UspSetLanguage", a |-> language, b |-> ""], failAt)
        u4 == InitStep(u3, id # "", [fn |-> "UspSetModelId", a |-> id, b |-> ""], failAt)
    IN  InitStep(u4, TRUE, [fn |-> "UspConnect", a |-> "", b |-> ""], failAt)

\* IsUspHandleValid, lines 73-76.
IsUspHandleValid(handle) == handle # INVALID_USP_HANDLE


\* ------------------------------------------------------------------- state
VARIABLES
    m_handle,                     \* the session handle, or INVALID_USP_HANDLE
    m_servicePreferedBufferSize,
    m_buffer,                     \* [isNull, mem]: the accumulation buffer
    m_bytesInBuffer,              \* its capacity
    m_ptrIntoBuffer,              \* write cursor: offset from m_buffer.get(), or NULLPTR
    m_bytesLeftInBuffer,
    m_hfile,                      \* the dump file: in HfileAfterNew, "open" or "null"
    site,                         \* what GetSite() returns: NoSite or the owner's site
    crashed,                      \* the process died (fwrite or fclose without an open file)
    sessions,                     \* transport: per handle, the calls made on it and its state
    sent,                         \* transport: the ::UspWriteAudio calls, in order
    sink,                         \* site: the events delivered, in order
    arrived,                      \* transport: the messages whose callback was invoked
    cb,                           \* transport thread: the callback under way, or NoMsg
    hung,                         \* the producer thread is inside a loop that cannot end
    nextId,                       \* history: serial number of the next accepted byte
    lastOp,                       \* history: the last producer call and what preceded it
    wrThrew,                      \* history: a write call did not return normally
    zeroFmt,                      \* history: a format with preferred size 0 was set
    nLife,
    nWrites,
    nFail

adapter == << m_handle, m_servicePreferedBufferSize, m_buffer, m_bytesInBuffer,
              m_ptrIntoBuffer, m_bytesLeftInBuffer, m_hfile >>
writerVars == << m_servicePreferedBufferSize, m_buffer, m_bytesInBuffer,
                 m_ptrIntoBuffer, m_bytesLeftInBuffer >>
vars == << m_handle, m_servicePreferedBufferSize, m_buffer, m_bytesInBuffer,
           m_ptrIntoBuffer, m_bytesLeftInBuffer, m_hfile, site, crashed, sessions, sent, sink,
           arrived, cb,
           hung, nextId, lastOp, wrThrew, zeroFmt, nLife, nWrites, nFail >>

NoSite == "nullptr"
TheSite == "site"

\* An Init that throws for both of its checks with the code of the first.
InitGuard_OneCode(s, handle) ==
    IF s = NoSite \/ IsUspHandleValid(handle) THEN SPXERR_UNINITIALIZED ELSE SPX_NOERROR

\* Init, lines 36-37: the error the call throws before doing anything, if any.
InitGuard(s, handle) ==
    IF s = NoSite THEN SPXERR_UNINITIALIZED
    ELSE IF IsUspHandleValid(handle) THEN SPXERR_ALREADY_INITIALIZED
    ELSE SPX_NOERROR

\* SetFormat, line 55: the error the call throws before doing anything, if any.
SetFormatGuard(handle) ==
    IF ~IsUspHandleValid(handle) THEN SPXERR_UNINITIALIZED ELSE SPX_NOERROR

NoMsg == [kind |-> "none", offset |-> 0, text |-> "", h |-> INVALID_USP_HANDLE]

\* Bytes held in the accumulation buffer.
Fill == m_bytesInBuffer - m_bytesLeftInBuffer
Held == SubSeq(m_buffer.mem, 1, Fill)

\* What a producer call found when it began.
Before(op, arg) ==
    [op |-> op, arg |-> arg, threw |-> FALSE, hr |-> SPX_NOERROR, handle |-> m_handle,
     fill |-> Fill,
     held |-> IF m_buffer.isNull THEN <<>> ELSE Held,
     isNull |-> m_buffer.isNull, cap |-> m_bytesInBuffer,
     pref |-> m_servicePreferedBufferSize, nsent |-> Len(sent), nsink |-> Len(sink)]

\* CSpxUspRecoEngineAdapter::CSpxUspRecoEngineAdapter, lines 23-32. m_hfile is left
\* as the memory was; the owner has given the adapter its site (SetSite, inherited)
\* or has not.
Init ==
    /\ m_handle = INVALID_USP_HANDLE
    /\ m_servicePreferedBufferSize = 0
    /\ m_buffer = NullBuffer
    /\ m_bytesInBuffer = 0
    /\ m_ptrIntoBuffer = NULLPTR
    /\ m_bytesLeftInBuffer = 0
    /\ m_hfile \in HfileAfterNew
    /\ site \in {NoSite, TheSite}
    /\ crashed = FALSE
    /\ sessions = <<>>
    /\ sent = <<>>
    /\ sink = <<>>
    /\ arrived = <<>>
    /\ cb = NoMsg
    /\ hung = FALSE
    /\ nextId = 1
    /\ lastOp = [op |-> "new", arg |-> 0, threw |-> FALSE, hr |-> SPX_NOERROR,
                 handle |-> INVALID_USP_HANDLE,
                 fill |-> 0, held |-> <<>>, isNull |-> TRUE, cap |-> 0, pref |-> 0,
                 nsent |-> 0, nsink |-> 0]
    /\ wrThrew = FALSE
    /\ zeroFmt = FALSE
    /\ nLife = 0
    /\ nWrites = 0
    /\ nFail = 0

\* The state of the transport session behind a handle.
IsConnected(handle) ==
    /\ handle \in 1..Len(sessions)
    /\ sessions[handle].connected
    /\ ~sessions[handle].closed

\* ---------------------------------------------------------------- lifecycle
\* Init, lines 34-41: throws SPXERR_UNINITIALIZED without a site (line 36) and
\* SPXERR_ALREADY_INITIALIZED with a valid handle (line 37). failAt: which transport call of UspInitialize fails (0: none);
\* opened: whether the dump file can be opened. DumpFileInit is reached only when
\* UspInitialize returned.
AdapterInitFrom(propSets, failAts) ==
    /\ nLife < MaxLife /\ ~hung /\ ~crashed
    /\ nLife' = nLife + 1
    /\ \E properties \in propSets, failAt \in failAts, opened \in BOOLEAN :
         LET u == UspInitialize(properties, failAt)
             created == ~(u.failed /\ Len(u.calls) = 1)
             guard == InitGuard(site, m_handle)
         IN  IF guard # SPX_NOERROR
             THEN /\ failAt = 0 /\ properties = Props1 /\ opened
                  /\ lastOp' = [Before("Init", 0) EXCEPT !.threw = TRUE, !.hr = guard]
                  /\ UNCHANGED << m_handle, m_hfile, sessions, nFail >>
             ELSE /\ failAt = 0 \/ (u.failed /\ nFail < MaxFail)
                  /\ u.failed => opened
                  /\ nFail' = IF u.failed THEN nFail + 1 ELSE nFail
                  /\ lastOp' = [Before("Init", 0) EXCEPT
                                    !.threw = u.failed,
                                    !.hr = IF u.failed THEN u.calls[Len(u.calls)].hr
                                           ELSE SPX_NOERROR]
                  /\ m_hfile' = IF u.failed THEN m_hfile ELSE DumpFileInit(opened)
                  /\ IF created
                     THEN /\ sessions' = Append(sessions,
                                 [calls |-> u.calls, connected |-> ~u.failed, closed |-> FALSE,
                                  properties |-> properties])
                          /\ m_handle' = Len(sessions) + 1
                     ELSE UNCHANGED << m_handle, sessions >>
    /\ UNCHANGED << writerVars, site, crashed, sent, sink, arrived, cb, hung, nextId, wrThrew,
                    zeroFmt, nWrites >>

\* UspInitialize makes at most five transport calls.
AdapterInit == AdapterInitFrom(PropSets, 0..5)

\* UspShutdown, lines 374-379: ::UspClose and its result.
UspShutdown(handle, hr) ==
    [threw |-> hr # SPX_NOERROR,
     sessions |-> IF hr = SPX_NOERROR /\ handle \in 1..Len(sessions)
                  THEN [sessions EXCEPT ![handle].closed = TRUE]
                  ELSE sessions]

\* Term, lines 43-51: UspShutdown, the handle reset, then DumpFileClose (line 50).
TermWith(results) ==
    /\ nLife < MaxLife /\ ~hung /\ ~crashed
    /\ nLife' = nLife + 1
    /\ \E hr \in results :
       \E c \in DumpFileClose(m_hfile) :
         LET r == UspShutdown(m_handle, hr)
         IN  /\ hr = SPX_NOERROR \/ nFail < MaxFail
             /\ nFail' = IF r.threw THEN nFail + 1 ELSE nFail
             /\ sessions' = r.sessions
             /\ m_handle' = IF r.threw THEN m_handle ELSE INVALID_USP_HANDLE
             /\ m_hfile' = IF r.threw THEN m_hfile ELSE c.hfile
             /\ crashed' = (~r.threw /\ c.crashed)
             /\ lastOp' = [Before("Term", 0) EXCEPT !.threw = r.threw, !.hr = hr]
    /\ UNCHANGED << writerVars, site, sent, sink, arrived, cb, hung, nextId, wrThrew, zeroFmt,
                    nWrites >>

Term == TermWith({SPX_NOERROR, USP_OTHER_ERROR})

\* ------------------------------------------------------------ audio entry
\* The transport's results for the sends of one call: none fails, or the at-th does.
NoFailure == [at |-> 0, hr |-> SPX_NOERROR]
SendPlans ==
    {NoFailure}
    \cup [at : 1..MaxSendIdx, hr : {USP_WRITE_AUDIO_ERROR, USP_OTHER_ERROR}]

\* The adapter's writer fields at the start of a call, with the call's plan.
Writer(plan) ==
    [m_servicePreferedBufferSize |-> m_servicePreferedBufferSize,
     m_buffer |-> m_buffer,
     m_bytesInBuffer |-> m_bytesInBuffer,
     m_ptrIntoBuffer |-> m_ptrIntoBuffer,
     m_bytesLeftInBuffer |-> m_bytesLeftInBuffer,
     hfile |-> m_hfile,
     tx |-> <<>>, plan |-> plan, threw |-> FALSE, hung |-> FALSE, crashed |-> FALSE]

\* UspWriteFormat, lines 256-297: the header goes to UspWrite on m_handle (line
\* 296); the handle passed in is not used (line 258).
UspWriteFormat(w, handle, pformat, first) ==
    UspWrite(w, m_handle, Tagged(HeaderBytes(FormatTable[pformat]), first, m_handle))

\* SetFormat, lines 53-66, after the handle check.
SetFormatBody(w, handle, pformat, first) ==
    IF pformat # nullptr
    THEN LET w1 == UspWriteFormat(w, handle, pformat, first)
         IN  IF w1.threw \/ w1.hung \/ w1.crashed THEN w1
             ELSE [w1 EXCEPT !.m_servicePreferedBufferSize =
                                 PreferedBufferSize(FormatTable[pformat])]
    ELSE UspWrite_Flush(w, handle)

\* ProcessAudio, lines 68-71.
ProcessAudioBody(w, handle, data, size) ==
    UspWrite(w, handle, SubSeq(data, 1, size))

\* The ::UspWriteAudio calls of a call, as the transport saw them.
Logged(tx) ==
    [i \in 1..Len(tx) |-> [h |-> tx[i].h, bytes |-> tx[i].bytes, hr |-> tx[i].hr,
                           conn |-> IsConnected(tx[i].h)]]

\* The error a writer call threw (line 320): the result of its last send.
Thrown(w) == IF w.threw THEN w.tx[Len(w.tx)].hr ELSE SPX_NOERROR

\* The state a writer call leaves.
Commit(w) ==
    /\ w.plan.at = 0 \/ (w.plan.at <= Len(w.tx) /\ nFail < MaxFail)
    /\ m_servicePreferedBufferSize' = w.m_servicePreferedBufferSize
    /\ m_buffer' = w.m_buffer
    /\ m_bytesInBuffer' = w.m_bytesInBuffer
    /\ m_ptrIntoBuffer' = w.m_ptrIntoBuffer
    /\ m_bytesLeftInBuffer' = w.m_bytesLeftInBuffer
    /\ sent' = sent \o Logged(w.tx)
    /\ hung' = w.hung
    /\ crashed' = w.crashed
    /\ wrThrew' = (wrThrew \/ w.threw \/ w.hung \/ w.crashed)
    /\ nFail' = IF w.plan.at = 0 THEN nFail ELSE nFail + 1

\* Bytes a SetFormat call hands to the writer.
HeaderLen(pformat) == IF pformat = nullptr THEN 0 ELSE cbHeader(FormatTable[pformat])

SetFormatWith(pformats, plans) ==
    /\ nWrites < MaxWrites /\ ~hung /\ ~crashed
    /\ nWrites' = nWrites + 1
    /\ \E pformat \in pformats, plan \in plans :
         LET w == SetFormatBody(Writer(plan), m_handle, pformat, nextId)
             guard == SetFormatGuard(m_handle)
         IN  IF guard # SPX_NOERROR
             THEN /\ plan.at = 0
                  /\ lastOp' = [Before("SetFormat", pformat) EXCEPT !.threw = TRUE,
                                                                   !.hr = guard]
                  /\ UNCHANGED << writerVars, sent, hung, crashed, wrThrew, nFail, nextId,
                                  zeroFmt >>
             ELSE /\ Commit(w)
                  /\ lastOp' = [Before("SetFormat", pformat) EXCEPT !.threw = w.threw,
                                                                   !.hr = Thrown(w)]
                  /\ nextId' = nextId + HeaderLen(pformat)
                  /\ zeroFmt' = (zeroFmt \/ (pformat # nullptr /\ ~w.threw /\ ~w.hung
                                             /\ ~w.crashed
                                             /\ w.m_servicePreferedBufferSize = 0))
    /\ UNCHANGED << m_handle, m_hfile, site, sessions, sink, arrived, cb, nLife >>

SetFormat == SetFormatWith(SmallFormats, SendPlans)

ProcessAudioWith(sizes, plans) ==
    /\ nWrites < MaxWrites /\ ~hung /\ ~crashed
    /\ nWrites' = nWrites + 1
    /\ \E size \in sizes, plan \in plans :
         LET data == Tagged(AudioBytes(size), nextId, m_handle)
             w == ProcessAudioBody(Writer(plan), m_handle, data, size)
         IN  /\ Commit(w)
             /\ lastOp' = [Before("ProcessAudio", size) EXCEPT !.threw = w.threw,
                                                                !.hr = Thrown(w)]
             /\ nextId' = nextId + size
    /\ UNCHANGED << m_handle, m_hfile, site, sessions, sink, arrived, cb, zeroFmt, nLife >>

ProcessAudio == ProcessAudioWith(0..MaxAudio, SendPlans)

\* ---------------------------------------------------------------- dispatch
MsgKinds == {"speech-start", "speech-end", "hypothesis", "fragment", "phrase",
             "turn-start", "turn-end", "error"}
MsgOffsets == {5, 7}

\* InitCallbacks, lines 386-424: the transport invokes the callback of a message on
\* its own thread; the callback then calls the adapter's handler.
CallbackFrom(kinds, offsets) ==
    /\ cb = NoMsg /\ ~crashed
    /\ Len(arrived) < MaxMsgs
    /\ \E h \in 1..Len(sessions), kind \in kinds, offset \in offsets :
         /\ IsConnected(h)
         /\ cb' = [kind |-> kind, offset |-> offset, text |-> "text", h |-> h]
         /\ arrived' = Append(arrived, cb')
    /\ UNCHANGED << adapter, site, crashed, sessions, sent, sink, hung, nextId, lastOp,
                    wrThrew, zeroFmt, nLife, nWrites, nFail >>

Callback == CallbackFrom(MsgKinds, MsgOffsets)

\* A handler that also releases the accumulation buffer.
Handle_ReleasesBuffer(kind, call) ==
    /\ cb.kind = kind /\ ~crashed
    /\ sink' = Append(sink, call)
    /\ cb' = NoMsg
    /\ m_buffer' = NullBuffer
    /\ UNCHANGED << m_handle, m_servicePreferedBufferSize, m_bytesInBuffer, m_ptrIntoBuffer,
                    m_bytesLeftInBuffer, m_hfile, site, crashed, sessions, sent, arrived, hung,
                    nextId, lastOp, wrThrew, zeroFmt, nLife, nWrites, nFail >>

\* A site call: the event, the session of its message, and whether that session
\* had been terminated when the call was made.
SiteCall(ev, offset, payload) ==
    [ev |-> ev, offset |-> offset, payload |-> payload, h |-> cb.h,
     late |-> sessions[cb.h].closed]

NoOffset == -1

\* UspOnSpeechStartDetected, lines 427-431.
OnSpeechStartDetected(message) == SiteCall("SpeechStartDetected", message.offset, "")
\* UspOnSpeechEndDetected, lines 433-437.
OnSpeechEndDetected(message) == SiteCall("SpeechEndDetected", message.offset, "")
\* UspOnSpeechHypothesis, lines 439-448.
OnSpeechHypothesis(message) == SiteCall("IntermediateRecoResult", message.offset, message.text)
\* A fragment handled as a phrase.
OnSpeechFragment_AsPhrase(message) == SiteCall("FinalRecoResult", message.offset, message.text)
\* UspOnSpeechFragment, lines 450-460.
OnSpeechFragment(message) == SiteCall("IntermediateRecoResult", message.offset, message.text)
\* UspOnSpeechPhrase, lines 462-471.
OnSpeechPhrase(message) == SiteCall("FinalRecoResult", message.offset, message.text)
\* UspOnTurnStart, lines 473-477.
OnTurnStart(message) == SiteCall("AdditionalMessage", 0, message.text)
\* A turn-end handled as an error.
OnTurnEnd_AsError(message) == SiteCall("Error", NoOffset, "")
\* UspOnTurnEnd, lines 479-484.
OnTurnEnd(message) == SiteCall("DoneProcessingAudio", NoOffset, "")
\* UspOnError, lines 486-490.
OnError(message) == SiteCall("Error", NoOffset, message.text)

Handle(kind, call) ==
    /\ cb.kind = kind /\ ~crashed
    /\ sink' = Append(sink, call)
    /\ cb' = NoMsg
    /\ UNCHANGED << adapter, site, crashed, sessions, sent, arrived, hung, nextId, lastOp,
                    wrThrew, zeroFmt, nLife, nWrites, nFail >>

UspOnSpeechStartDetected == Handle("speech-start", OnSpeechStartDetected(cb))
UspOnSpeechEndDetected == Handle("speech-end", OnSpeechEndDetected(cb))
UspOnSpeechHypothesis == Handle("hypothesis", OnSpeechHypothesis(cb))
UspOnSpeechFragment == Handle("fragment", OnSpeechFragment(cb))
UspOnSpeechPhrase == Handle("phrase", OnSpeechPhrase(cb))
UspOnTurnStart == Handle("turn-start", OnTurnStart(cb))
UspOnTurnEnd == Handle("turn-end", OnTurnEnd(cb))
UspOnError == Handle("error", OnError(cb))

Dispatch ==
    \/ UspOnSpeechStartDetected
    \/ UspOnSpeechEndDetected
    \/ UspOnSpeechHypothesis
    \/ UspOnSpeechFragment
    \/ UspOnSpeechPhrase
    \/ UspOnTurnStart
    \/ UspOnTurnEnd
    \/ UspOnError

Next ==
    \/ AdapterInit
    \/ Term
    \/ SetFormat
    \/ ProcessAudio
    \/ Callback
    \/ Dispatch

Spec == Init /\ [][Next]_vars

\* The producer's calls alone, with one property set at Init and a transport
\* whose ::UspWriteAudio and ::UspClose succeed; Init succeeds or fails at
\* ::UspSetAuthentication. What a failing ::UspWriteAudio does to the writer is
\* checked under SpecSend.
NextWriter ==
    \/ AdapterInitFrom({Props1}, {0, 2})
    \/ TermWith({SPX_NOERROR})
    \/ SetFormatWith(SmallFormats, {NoFailure})
    \/ ProcessAudioWith(0..MaxAudio, {NoFailure})

SpecWriter == Init /\ [][NextWriter]_vars

\* The writer at the capacity of 16 kHz PCM audio (3200 bytes), written in chunks
\* of 3200 and 5000 bytes, on a session that Init connected.
NextPcm ==
    \/ AdapterInitFrom({Props1}, {0})
    \/ SetFormatWith({nullptr, pFmtPcm16k}, {NoFailure})
    \/ ProcessAudioWith({3200, 5000}, {NoFailure})

SpecPcm == Init /\ [][NextPcm]_vars

\* The producer's calls on a session that Init connected, with a transport whose
\* ::UspWriteAudio may fail.
NextSend ==
    \/ AdapterInitFrom({Props1}, {0})
    \/ SetFormatWith({nullptr, pFmtA, pFmtZ}, SendPlans)
    \/ ProcessAudioWith(0..MaxAudio, SendPlans)

SpecSend == Init /\ [][NextSend]_vars

\* Format changes only: every descriptor, with one-byte audio writes between.
NextHeader ==
    \/ AdapterInitFrom({Props1}, {0})
    \/ SetFormatWith({pFmtA, pFmtB, pFmtZ, pFmtPcm16k, pFmtExt}, {NoFailure})
    \/ ProcessAudioWith({1}, {NoFailure})

SpecHeader == Init /\ [][NextHeader]_vars

\* The two threads together: phrase, turn-end and error messages dispatched
\* between the writes of one format.
NextMixed ==
    \/ AdapterInitFrom({Props1}, {0})
    \/ SetFormatWith({pFmtA}, {NoFailure})
    \/ ProcessAudioWith({1}, {NoFailure})
    \/ CallbackFrom({"phrase", "turn-end", "error"}, {5})
    \/ UspOnSpeechPhrase
    \/ UspOnTurnEnd
    \/ UspOnError

SpecMixed == Init /\ [][NextMixed]_vars

\* Init alone, over every property assignment, each transport call of
\* UspInitialize succeeding or failing.
NextInit ==
    \/ AdapterInitFrom(AllProperties \cup {Props1}, 0..5)

SpecInit == Init /\ [][NextInit]_vars

\* The lifecycle and the transport's messages, with no audio written.
NextDispatch ==
    \/ AdapterInitFrom({Props1}, 0..3)
    \/ Term
    \/ Callback
    \/ Dispatch

SpecDispatch == Init /\ [][NextDispatch]_vars


\* ================================================================== claims
\* All bytes handed to ::UspWriteAudio so far, in order.
RECURSIVE Flatten(_)
Flatten(log) ==
    IF Len(log) = 0 THEN <<>> ELSE Flatten(SubSeq(log, 1, Len(log) - 1)) \o log[Len(log)].bytes

AllSentBytes == Flatten(sent)
HeldBytes == IF m_buffer.isNull THEN <<>> ELSE Held

\* The ::UspWriteAudio calls the last producer call made.
NewSends == SubSeq(sent, lastOp.nsent + 1, Len(sent))

\* The last producer call was a flush request that passed the handle check.
LastWasFlush ==
    /\ lastOp.op = "SetFormat" /\ lastOp.arg = nullptr
    /\ IsUspHandleValid(lastOp.handle)

\* The last producer call handed n > 0 bytes to UspWrite (0: it did not).
LastWritten ==
    IF lastOp.op = "ProcessAudio" THEN lastOp.arg
    ELSE IF lastOp.op = "SetFormat" /\ IsUspHandleValid(lastOp.handle) THEN HeaderLen(lastOp.arg)
    ELSE 0

\* It went through the accumulation buffer.
LastWasBuffered == m_fUseBufferedImplementation /\ lastOp.pref # 0

\* The capacity of the buffer the last call wrote to.
LastCapacity == IF lastOp.isNull THEN lastOp.pref ELSE lastOp.cap

BufferReleased ==
    /\ m_buffer.isNull /\ m_bytesInBuffer = 0
    /\ m_ptrIntoBuffer = NULLPTR /\ m_bytesLeftInBuffer = 0

BufferAsBefore ==
    /\ m_buffer.isNull = lastOp.isNull /\ m_bytesInBuffer = lastOp.cap
    /\ Fill = lastOp.fill /\ HeldBytes = lastOp.held

\* C1: in buffered mode (no format of preferred size 0 set, no write failed), once
\* a flush has returned, the bytes handed to ::UspWriteAudio are the bytes the
\* writer accepted, each once and in the order accepted.
C1_StreamPreserved ==
    (LastWasFlush /\ ~lastOp.threw /\ ~zeroFmt /\ ~wrThrew) =>
        LET out == AllSentBytes
        IN  /\ Len(out) = nextId - 1
            /\ \A i \in 1..Len(out) : out[i].id = i

\* C1's failure: after a flush as many bytes were sent as were accepted, but the
\* stream sent steps back to a byte sent before, and the last accepted byte was
\* never sent.
C1_Witness ==
    /\ LastWasFlush /\ ~lastOp.threw /\ ~zeroFmt /\ ~wrThrew
    /\ LET out == AllSentBytes
       IN  /\ Len(out) = nextId - 1
           /\ \E j \in 2..Len(out) : out[j].id < out[j - 1].id /\ out[out[j].id].id = out[j].id
           /\ \A i \in 1..Len(out) : out[i].id # nextId - 1

\* C2: a buffered write of n > 0 bytes that finds the buffer empty, of capacity C > 0,
\* makes n \div C sends of C bytes each and leaves n % C bytes held; a flush that
\* finds k > 0 bytes held makes one send of k bytes. (A call that threw on a failed
\* send, or that never ends, is not counted.)
C2_WriteCounts ==
    /\ (/\ LastWritten > 0 /\ LastWasBuffered /\ ~lastOp.threw /\ ~hung
        /\ lastOp.fill = 0 /\ LastCapacity > 0)
       => /\ Len(NewSends) = LastWritten \div LastCapacity
          /\ \A i \in 1..Len(NewSends) : Len(NewSends[i].bytes) = LastCapacity
          /\ Fill = LastWritten % LastCapacity
    /\ (LastWasFlush /\ ~lastOp.threw /\ lastOp.fill > 0)
       => /\ Len(NewSends) = 1
          /\ Len(NewSends[1].bytes) = lastOp.fill

\* C2's failure: a buffered write of more than twice the capacity found the buffer
\* empty while the dump file was not open; its first send was its only one, and
\* the process died in DumpFileWrite.
C2_Witness ==
    /\ LastWritten > 0 /\ LastWasBuffered /\ ~lastOp.threw
    /\ lastOp.fill = 0 /\ LastCapacity > 0
    /\ LastWritten \div LastCapacity > 1
    /\ crashed /\ ~IsStream(m_hfile)
    /\ Len(NewSends) = 1 /\ Len(NewSends[1].bytes) = LastCapacity
    /\ NewSends[1].hr = SPX_NOERROR

\* C3 as claimed: a flush that finds no bytes held makes no ::UspWriteAudio call.
C3_Claimed ==
    (LastWasFlush /\ lastOp.fill = 0) => Len(NewSends) = 0

\* C3: a flush that finds no bytes held hands no audio byte to the transport: it
\* makes exactly one ::UspWriteAudio call, of size 0, on the session. When that
\* call succeeds or fails with USP_WRITE_AUDIO_ERROR the flush returns and leaves
\* the buffer released; when it fails with another error the flush throws that
\* error and leaves an empty buffer allocated (the one it found, or a new one of
\* the preferred size).
C3_EmptyFlush ==
    (LastWasFlush /\ lastOp.fill = 0) =>
        /\ Len(NewSends) = 1
        /\ NewSends[1].bytes = <<>>
        /\ NewSends[1].h = lastOp.handle
        /\ ~hung /\ ~crashed
        /\ lastOp.threw <=> NewSends[1].hr \notin {SPX_NOERROR, USP_WRITE_AUDIO_ERROR}
        /\ ~lastOp.threw => BufferReleased
        /\ lastOp.threw =>
               /\ lastOp.hr = NewSends[1].hr
               /\ ~m_buffer.isNull /\ Fill = 0
               /\ m_bytesInBuffer = LastCapacity

\* C3's case: two flushes in a row, the second finding the buffer released; its
\* zero-size send failed with USP_WRITE_AUDIO_ERROR and the flush returned.
C3_Witness ==
    /\ LastWasFlush /\ lastOp.fill = 0 /\ lastOp.isNull /\ ~lastOp.threw
    /\ lastOp.nsent > 0 /\ lastOp.pref > 0
    /\ Len(sent) = lastOp.nsent + 1
    /\ sent[lastOp.nsent].bytes = <<>>
    /\ NewSends[1].bytes = <<>> /\ NewSends[1].hr = USP_WRITE_AUDIO_ERROR
    /\ BufferReleased

\* C4 as claimed: ProcessAudio of size 0 (on an initialised adapter) makes no
\* ::UspWriteAudio call and leaves the buffer as it was.
C4_Claimed ==
    (lastOp.op = "ProcessAudio" /\ lastOp.arg = 0 /\ IsUspHandleValid(lastOp.handle)) =>
        /\ Len(NewSends) = 0
        /\ BufferAsBefore

\* C4's failure: a zero-size ProcessAudio that found bytes held in buffered mode
\* made one ::UspWriteAudio call carrying them and released the buffer.
C4_Witness ==
    /\ lastOp.op = "ProcessAudio" /\ lastOp.arg = 0 /\ ~lastOp.threw
    /\ IsUspHandleValid(lastOp.handle)
    /\ LastWasBuffered /\ lastOp.fill > 0 /\ ~lastOp.isNull
    /\ Len(NewSends) = 1 /\ NewSends[1].bytes = lastOp.held
    /\ BufferReleased

\* C8: once Term has returned, no accepted byte is left untransmitted in the
\* accumulation buffer.
C8_TermFlushes ==
    (lastOp.op = "Term" /\ ~lastOp.threw /\ ~crashed) => Fill = 0

\* C8's failure: Term has closed the session and left accepted bytes in a buffer
\* it did not release; they were handed to no ::UspWriteAudio call.
C8_Witness ==
    /\ lastOp.op = "Term" /\ ~lastOp.threw /\ ~crashed /\ ~IsUspHandleValid(m_handle)
    /\ lastOp.handle \in 1..Len(sessions) /\ sessions[lastOp.handle].closed
    /\ ~m_buffer.isNull /\ Fill > 0
    /\ Len(sent) = lastOp.nsent
    /\ \A k \in 1..Fill : \A i \in 1..Len(AllSentBytes) : AllSentBytes[i].id # Held[k].id

\* C9: a byte accepted in one session is never handed to ::UspWriteAudio in
\* another session.
C9_NoSharing ==
    \A i \in 1..Len(sent) : \A k \in 1..Len(sent[i].bytes) :
        (IsUspHandleValid(sent[i].h) /\ IsUspHandleValid(sent[i].bytes[k].ep))
            => sent[i].bytes[k].ep = sent[i].h

\* C9's failure: a session's ::UspWriteAudio carried a byte that was accepted in an
\* earlier session, since closed.
C9_Witness ==
    \E i \in 1..Len(sent) : \E k \in 1..Len(sent[i].bytes) :
        LET ep == sent[i].bytes[k].ep
        IN  /\ sent[i].conn
            /\ ep \in 1..Len(sessions) /\ ep < sent[i].h
            /\ sessions[ep].closed

\* C10: ::UspWriteAudio is never called on a session that Init created but did not
\* connect.
C10_NoPartialTransmit ==
    \A i \in 1..Len(sent) :
        sent[i].h \in 1..Len(sessions) => sessions[sent[i].h].connected

\* C10's failure: Init threw after ::UspInit had created the session, and the next
\* producer call handed bytes to ::UspWriteAudio on that session.
C10_Witness ==
    /\ lastOp.op \in {"SetFormat", "ProcessAudio"}
    /\ lastOp.handle \in 1..Len(sessions)
    /\ ~sessions[lastOp.handle].connected
    /\ Len(sessions[lastOp.handle].calls) > 1
    /\ Len(NewSends) > 0 /\ NewSends[1].h = lastOp.handle /\ ~NewSends[1].conn

\* ------------------------------------------------------- claims on dispatch
\* The handling of the messages that arrived is complete but for the one under way.
InFlight == IF cb = NoMsg THEN 0 ELSE 1

\* C5: no event reaches the site for a session that Term has closed.
C5_NoLateEvent ==
    \A i \in 1..Len(sink) : ~sink[i].late

\* C5's failure: Term returned while a message's callback was under way, and the
\* handler then delivered the message's event to the site.
C5_Witness ==
    /\ lastOp.op = "Term" /\ ~lastOp.threw /\ ~crashed /\ ~IsUspHandleValid(m_handle)
    /\ Len(sink) = lastOp.nsink + 1
    /\ sink[Len(sink)].late /\ sink[Len(sink)].h = lastOp.handle
    /\ cb = NoMsg

\* C6 as claimed: after a session's DoneProcessingAudio no further event of that
\* session reaches the site.
C6_Claimed ==
    \A i, j \in 1..Len(sink) :
        (i < j /\ sink[i].ev = "DoneProcessingAudio") => sink[j].h # sink[i].h

\* C6: a turn-end message, after any sequence of other messages, produces exactly
\* the event DoneProcessingAudio, and no other message does; the messages that
\* arrive after it are handled like the ones before it, one event each.
C6_TurnEndRouted ==
    /\ Len(sink) = Len(arrived) - InFlight
    /\ \A i \in 1..Len(sink) :
           /\ sink[i].h = arrived[i].h
           /\ (arrived[i].kind = "turn-end") <=> (sink[i].ev = "DoneProcessingAudio")

\* C6's case: a turn-end handled, and a later message of the same session, not a
\* turn-end, handled after it.
C6_Witness ==
    \E i \in 1..Len(sink) :
        /\ arrived[i].kind = "turn-end" /\ sink[i].ev = "DoneProcessingAudio"
        /\ i < Len(sink) /\ sink[Len(sink)].h = sink[i].h
        /\ sink[Len(sink)].ev = "FinalRecoResult"
        /\ cb = NoMsg

\* The routing table: the site call of a message kind.
RoutedEvent(message) ==
    CASE message.kind = "speech-start" -> "SpeechStartDetected"
      [] message.kind = "speech-end" -> "SpeechEndDetected"
      [] message.kind = "hypothesis" -> "IntermediateRecoResult"
      [] message.kind = "fragment" -> "IntermediateRecoResult"
      [] message.kind = "phrase" -> "FinalRecoResult"
      [] message.kind = "turn-start" -> "AdditionalMessage"
      [] message.kind = "turn-end" -> "DoneProcessingAudio"
      [] OTHER -> "Error"

\* The offset the table gives the site call: the message's own, 0 for turn-start,
\* none for turn-end and error.
RoutedOffset(message) ==
    IF message.kind \in {"speech-start", "speech-end", "hypothesis", "fragment", "phrase"}
    THEN message.offset
    ELSE IF message.kind = "turn-start" THEN 0 ELSE NoOffset

\* C7: every handled message has made exactly one site call, the one the routing
\* table gives its kind, with the message's offset, in the order of arrival; the
\* call is made before the next message's callback begins.
C7_RoutingTable ==
    /\ Len(sink) = Len(arrived) - InFlight
    /\ \A i \in 1..Len(sink) :
           /\ sink[i].ev = RoutedEvent(arrived[i])
           /\ sink[i].offset = RoutedOffset(arrived[i])
    /\ cb # NoMsg => cb = arrived[Len(arrived)]

\* C7's case: two messages of different kinds and offsets, both handled while the
\* adapter is initialised, the first a fragment.
C7_Witness ==
    /\ Len(sink) = MaxMsgs /\ cb = NoMsg /\ IsUspHandleValid(m_handle)
    /\ arrived[1].kind = "fragment" /\ sink[1].ev = "IntermediateRecoResult"
    /\ arrived[2].kind = "turn-start" /\ sink[2].offset = 0
    /\ arrived[1].offset # arrived[2].offset
    /\ ~sink[1].late /\ ~sink[2].late

\* ------------------------------------------------- claims on error handling
\* C11: ProcessAudio on an adapter whose handle is invalid (never initialised, or
\* terminated) throws, makes no ::UspWriteAudio call and leaves the buffer as it was.
C11_FailsFast ==
    (lastOp.op = "ProcessAudio" /\ ~IsUspHandleValid(lastOp.handle)) =>
        /\ lastOp.threw
        /\ Len(NewSends) = 0
        /\ BufferAsBefore

\* C11's failure: after Term, a ProcessAudio call returned normally, having made no
\* transport call at all, with its bytes added to the accumulation buffer.
C11_Witness ==
    /\ lastOp.op = "ProcessAudio" /\ ~IsUspHandleValid(lastOp.handle)
    /\ Len(sessions) > 0 /\ sessions[Len(sessions)].closed
    /\ lastOp.arg > 0 /\ LastWasBuffered
    /\ ~lastOp.threw /\ ~crashed /\ Len(NewSends) = 0
    /\ Fill = lastOp.fill + lastOp.arg

\* C12: an Init call that finds the handle valid throws SPXERR_ALREADY_INITIALIZED,
\* and a SetFormat call that finds it invalid throws SPXERR_UNINITIALIZED; the step
\* makes no transport call (no session is created or changed, nothing is sent) and
\* leaves the handle, the preferred buffer size and the accumulation buffer
\* unchanged.
C12_LifecycleErrors ==
    [][/\ (/\ nLife' = nLife + 1 /\ lastOp'.op = "Init"
           /\ m_handle # INVALID_USP_HANDLE)
          => /\ lastOp'.threw /\ lastOp'.hr = SPXERR_ALREADY_INITIALIZED
             /\ UNCHANGED << adapter, sessions, sent >>
       /\ (/\ nWrites' = nWrites + 1 /\ lastOp'.op = "SetFormat"
           /\ m_handle = INVALID_USP_HANDLE)
          => /\ lastOp'.threw /\ lastOp'.hr = SPXERR_UNINITIALIZED
             /\ UNCHANGED << adapter, sessions, sent >>]_vars

\* C12's case: Init was called on an initialised adapter that held bytes in its
\* buffer, and threw, leaving the one session and the buffer as they were.
C12_Witness ==
    /\ lastOp.op = "Init" /\ lastOp.handle # INVALID_USP_HANDLE /\ lastOp.threw
    /\ lastOp.hr = SPXERR_ALREADY_INITIALIZED
    /\ m_handle = lastOp.handle /\ Len(sessions) = 1 /\ IsConnected(m_handle)
    /\ lastOp.fill > 0 /\ BufferAsBefore
    /\ m_servicePreferedBufferSize = lastOp.pref /\ Len(NewSends) = 0

\* ------------------------------------------------------ claims on resolution
\* The transport functions called on a session, in order.
CallNames(h) == [i \in 1..Len(sessions[h].calls) |-> sessions[h].calls[i].fn]
Called(h, fn) == \E i \in 1..Len(sessions[h].calls) : sessions[h].calls[i].fn = fn

\* No credential property is set.
NoCredential(p) ==
    /\ p["SPEECH-SubscriptionKey"] = "" /\ p["SPEECH-AuthToken"] = ""
    /\ p["SPEECH-RpsToken"] = ""

\* The endpoint property names a custom URL (and no custom model is set).
IsCustomUrl(p) ==
    /\ p["CUSTOMSPEECH-modelId"] = ""
    /\ p["SPEECH-Endpoint"] \notin {"", "Cortana", "CORTANA"}

\* The recognition mode property is set and names no mode.
NoSuchMode(p) == p["SPEECH-RecoMode"] \notin {"", "Interactive", "conversation", "DICTATION"}

\* C13: when no credential is set, or the mode of a non-custom-URL endpoint names
\* no mode, Init does not call ::UspConnect and does not leave the adapter
\* initialised on the session.
C13_ConfigError ==
    \A h \in 1..Len(sessions) :
        LET p == sessions[h].properties
        IN  (PropNames \subseteq DOMAIN p /\ (NoCredential(p) \/ (~IsCustomUrl(p) /\ NoSuchMode(p))))
                => /\ ~Called(h, "UspConnect")
                   /\ ~sessions[h].connected
                   /\ m_handle # h

\* C13's failure: with no credential set, Init returned normally: it skipped
\* ::UspSetAuthentication, called ::UspConnect and left the adapter initialised.
C13_Witness ==
    /\ lastOp.op = "Init" /\ ~lastOp.threw /\ IsUspHandleValid(m_handle)
    /\ PropNames \subseteq DOMAIN sessions[m_handle].properties
    /\ NoCredential(sessions[m_handle].properties)
    /\ ~NoSuchMode(sessions[m_handle].properties)
    /\ ~Called(m_handle, "UspSetAuthentication")
    /\ Called(m_handle, "UspConnect") /\ IsConnected(m_handle)

\* A ::UspWriteAudio call whose failure the writer surfaces: any failure but
\* USP_WRITE_AUDIO_ERROR on zero bytes.
Surfaced(send) ==
    /\ send.hr # SPX_NOERROR
    /\ ~(Len(send.bytes) = 0 /\ send.hr = USP_WRITE_AUDIO_ERROR)

\* The last producer call reached UspWrite and came to an end.
LastReachedWriter ==
    /\ ~hung
    /\ \/ lastOp.op = "ProcessAudio"
       \/ lastOp.op = "SetFormat" /\ IsUspHandleValid(lastOp.handle)

\* C14: a ProcessAudio or SetFormat call throws exactly when one of its
\* ::UspWriteAudio calls failed otherwise than with USP_WRITE_AUDIO_ERROR on zero
\* bytes; that call is then the last one it made.
C14_FailurePropagates ==
    LastReachedWriter =>
        /\ lastOp.threw <=> (\E i \in 1..Len(NewSends) : Surfaced(NewSends[i]))
        /\ \A i \in 1..Len(NewSends) : Surfaced(NewSends[i]) => i = Len(NewSends)

\* C14's failure: a send of n > 0 bytes failed while the dump file was not open;
\* the call did not throw, the process died in DumpFileWrite.
C14_Witness ==
    /\ LastReachedWriter /\ ~lastOp.threw
    /\ crashed /\ ~IsStream(m_hfile)
    /\ Len(NewSends) > 0
    /\ Surfaced(NewSends[Len(NewSends)])
    /\ Len(NewSends[Len(NewSends)].bytes) > 0

\* ------------------------------------------------------ claims on the header
\* The bytes handed to the transport followed by the bytes held: the stream as
\* transmitted once the buffer is flushed.
Stream == AllSentBytes \o HeldBytes

\* A header byte (the values of audio bytes start at 201).
IsHeaderByte(b) == b.v <= 200

\* The last producer call was a SetFormat with a format, past the handle check.
LastSetFormat ==
    /\ lastOp.op = "SetFormat" /\ lastOp.arg # nullptr
    /\ IsUspHandleValid(lastOp.handle) /\ ~lastOp.threw /\ ~hung

\* C15: with no send failed, a SetFormat with a format has put its header, whole
\* and once, at the end of the stream; every header byte of the stream stands
\* where it was accepted, after the bytes accepted before it and before those
\* accepted after it; a SetFormat(nullptr) sends the bytes held and nothing else.
C15_HeaderInPlace ==
    ~wrThrew =>
        LET out == Stream
            cb0 == HeaderLen(lastOp.arg)
        IN  /\ \A i \in 1..Len(out) : IsHeaderByte(out[i]) => out[i].id = i
            /\ LastSetFormat =>
                   /\ Len(out) = nextId - 1
                   /\ \A k \in 1..cb0 :
                          /\ out[nextId - 1 - cb0 + k].id = nextId - 1 - cb0 + k
                          /\ out[nextId - 1 - cb0 + k].v = HeaderBytes(FormatTable[lastOp.arg])[k]
            /\ (LastWasFlush /\ ~lastOp.threw) =>
                   /\ Flatten(NewSends) = lastOp.held
                   /\ \A i \in 1..Len(NewSends) : NewSends[i].h = lastOp.handle

\* C15's failure: a header written through a buffer with less room than the header
\* needs; the stream ends with as many bytes as the header has, but they are not
\* the header: its first bytes stand there again where its later bytes belong.
C15_Witness ==
    /\ LastSetFormat /\ LastWasBuffered /\ ~wrThrew /\ ~zeroFmt
    /\ LastCapacity - lastOp.fill < HeaderLen(lastOp.arg)
    /\ LET out == Stream
       IN  /\ Len(out) = nextId - 1
           /\ out[nextId - 1].id < nextId - 1
           /\ out[nextId - 1].id > nextId - 1 - HeaderLen(lastOp.arg)

\* The place of a transport function in the order of configuration.
Rank(fn) ==
    CASE fn \in {"UspInit", "UspInitByUrl"} -> 1
      [] fn = "UspSetAuthentication" -> 2
      [] fn = "UspSetLanguage" -> 3
      [] fn = "UspSetModelId" -> 4
      [] OTHER -> 5

\* The optional setters, and whether the properties provide a setter's value.
Setters == {"UspSetAuthentication", "UspSetLanguage", "UspSetModelId"}
Provided(p, fn) ==
    CASE fn = "UspSetAuthentication" -> ~NoCredential(p)
      [] fn = "UspSetLanguage" -> p["SPEECH-RecoLanguage"] # ""
      [] OTHER -> p["CUSTOMSPEECH-ModelId"] # ""

\* Every call made on the session before the step of the given rank succeeded.
SucceededBefore(h, rank) ==
    \A i \in 1..Len(sessions[h].calls) :
        Rank(sessions[h].calls[i].fn) < rank => sessions[h].calls[i].hr = SPX_NOERROR

\* C16: the transport calls of an Init come in the order create, authentication,
\* language, model id, connect, none twice; a call that failed is followed by
\* none; a setter is called only if its value is provided, and is called when it
\* is provided and every earlier call succeeded; ::UspConnect is called exactly
\* when every earlier call succeeded, and is then the last call; the session is
\* connected exactly when ::UspConnect was called and succeeded.
C16_InitOrder ==
    \A h \in 1..Len(sessions) :
        LET calls == sessions[h].calls
            p == sessions[h].properties
            last == calls[Len(calls)]
        IN  PropNames \subseteq DOMAIN p =>
                /\ Rank(calls[1].fn) = 1
                /\ \A i, j \in 1..Len(calls) : i < j => Rank(calls[i].fn) < Rank(calls[j].fn)
                /\ \A i \in 1..(Len(calls) - 1) : calls[i].hr = SPX_NOERROR
                /\ \A fn \in Setters :
                       /\ Called(h, fn) => Provided(p, fn)
                       /\ (Provided(p, fn) /\ SucceededBefore(h, Rank(fn))) => Called(h, fn)
                /\ Called(h, "UspConnect") <=> SucceededBefore(h, 5)
                /\ Called(h, "UspConnect") => last.fn = "UspConnect"
                /\ sessions[h].connected <=>
                       (last.fn = "UspConnect" /\ last.hr = SPX_NOERROR)

\* C16's case: every property is set and ::UspSetLanguage, the third call, failed:
\* Init threw its error, ::UspSetModelId and ::UspConnect were not called although
\* a model id is provided, and the session is not connected.
C16_Witness ==
    /\ lastOp.op = "Init" /\ lastOp.threw /\ lastOp.hr = USP_OTHER_ERROR
    /\ IsUspHandleValid(m_handle)
    /\ PropNames \subseteq DOMAIN sessions[m_handle].properties
    /\ Provided(sessions[m_handle].properties, "UspSetModelId")
    /\ CallNames(m_handle) = << "UspInit", "UspSetAuthentication", "UspSetLanguage" >>
    /\ sessions[m_handle].calls[2].hr = SPX_NOERROR
    /\ sessions[m_handle].calls[3].hr = USP_OTHER_ERROR
    /\ ~sessions[m_handle].connected

\* C17: the session is created for exactly one endpoint variant, the first that
\* matches: custom model id set: custom-model variant; else endpoint CORTANA in
\* any case: legacy-agent variant; else endpoint set: by URL, with that URL; else
\* the default speech variant, in interactive mode when no mode is set.
C17_EndpointPrecedence ==
    \A h \in 1..Len(sessions) :
        LET p == sessions[h].properties
            create == sessions[h].calls[1]
            endpoint == p["SPEECH-Endpoint"]
        IN  PropNames \subseteq DOMAIN p =>
                IF p["CUSTOMSPEECH-modelId"] # ""
                THEN create.fn = "UspInit" /\ create.a = "USP_ENDPOINT_CRIS"
                ELSE IF endpoint \in {"Cortana", "CORTANA"}
                THEN create.fn = "UspInit" /\ create.a = "USP_ENDPOINT_CDSDK"
                ELSE IF endpoint # ""
                THEN create.fn = "UspInitByUrl" /\ create.a = endpoint
                ELSE /\ create.fn = "UspInit" /\ create.a = "USP_ENDPOINT_BING_SPEECH"
                     /\ p["SPEECH-RecoMode"] = "" => create.b = "USP_RECO_MODE_INTERACTIVE"

\* C17's case: a custom model id together with a custom URL and every other
\* property set: the session is created for the custom-model variant.
C17_Witness ==
    /\ lastOp.op = "Init" /\ IsUspHandleValid(m_handle)
    /\ PropNames \subseteq DOMAIN sessions[m_handle].properties
    /\ \A n \in PropNames : sessions[m_handle].properties[n] # ""
    /\ sessions[m_handle].properties["SPEECH-Endpoint"] = "wss://custom"
    /\ sessions[m_handle].calls[1].a = "USP_ENDPOINT_CRIS"

\* C18: the authentication resolved from a session's properties is the first set
\* of subscription key, authorization token, RPS token, with that property's value
\* as the data, and unknown with empty data when none is set; it is what
\* ::UspSetAuthentication was called with, if it was called.
C18_AuthPrecedence ==
    \A h \in 1..Len(sessions) :
        LET p == sessions[h].properties
            auth == GetUspAuthenticationData(p)
            key == p["SPEECH-SubscriptionKey"]
            token == p["SPEECH-AuthToken"]
            rps == p["SPEECH-RpsToken"]
        IN  PropNames \subseteq DOMAIN p =>
                /\ IF key # ""
                   THEN auth = [authType |-> "USP_AUTHENTICATION_SUBSCRIPTION_KEY",
                                authData |-> key]
                   ELSE IF token # ""
                   THEN auth = [authType |-> "USP_AUTHENTICATION_AUTHORIZATION_TOKEN",
                                authData |-> token]
                   ELSE IF rps # ""
                   THEN auth = [authType |-> "USP_AUTHENTICATION_SEARCH_DELEGATION_RPS_TOKEN",
                                authData |-> rps]
                   ELSE auth = [authType |-> "USP_AUTHENTICATION_UNKNOWN", authData |-> ""]
                /\ \A i \in 1..Len(sessions[h].calls) :
                       sessions[h].calls[i].fn = "UspSetAuthentication" =>
                           /\ sessions[h].calls[i].a = auth.authType
                           /\ sessions[h].calls[i].b = auth.authData

\* C18's case: all three credentials set, and ::UspSetAuthentication called with
\* the subscription key.
C18_Witness ==
    /\ lastOp.op = "Init" /\ IsUspHandleValid(m_handle)
    /\ PropNames \subseteq DOMAIN sessions[m_handle].properties
    /\ sessions[m_handle].properties["SPEECH-SubscriptionKey"] = "key"
    /\ sessions[m_handle].properties["SPEECH-AuthToken"] = "token"
    /\ sessions[m_handle].properties["SPEECH-RpsToken"] = "rps"
    /\ Len(sessions[m_handle].calls) > 1
    /\ sessions[m_handle].calls[2] = [fn |-> "UspSetAuthentication",
                                      a |-> "USP_AUTHENTICATION_SUBSCRIPTION_KEY", b |-> "key",
                                      hr |-> SPX_NOERROR]

\* The values of the bytes of a transmission.
Values(bytes) == [i \in 1..Len(bytes) |-> bytes[i].v]

\* The header the specification describes for a descriptor of F serialized bytes.
DescribedHeader(descriptor, F) ==
    <<82, 73, 70, 70>> \o <<0, 0, 0, 0>> \o <<87, 65, 86, 69>> \o <<102, 109, 116, 32>>
    \o << F % 256, (F \div 256) % 256, (F \div 65536) % 256, (F \div 16777216) % 256 >>
    \o SubSeq(descriptor, 1, F) \o <<100, 97, 116, 97>> \o <<0, 0, 0, 0>>

\* The last call was a SetFormat with a descriptor, made while the writer passed
\* bytes through, and it returned.
LastHeaderPassedThrough ==
    /\ lastOp.op = "SetFormat" /\ lastOp.arg # nullptr
    /\ IsUspHandleValid(lastOp.handle) /\ ~lastOp.threw
    /\ lastOp.pref = 0

\* The lengths a serialized descriptor can have: all of its bytes, that is the
\* fixed fields, the cbSize field and the cbSize extension bytes; a descriptor
\* without extension bytes may also end before the cbSize field.
SerializedLengths(pformat) ==
    {Len(FormatMemory(pformat))}
    \cup (IF pformat.cbSize = 0 THEN {Len(FormatMemory(pformat)) - 2} ELSE {})

\* C19: the header of a descriptor of F serialized bytes is RIFF, four zero bytes,
\* WAVE, 'fmt ', F as four little-endian bytes, the F descriptor bytes, data, four
\* zero bytes: 28 + F bytes, which is the length computed before writing, and the
\* bytes are those the descriptor determines. Stated of each header that reaches
\* the transport in one piece.
C19_HeaderLayout ==
    LastHeaderPassedThrough =>
        LET pformat == FormatTable[lastOp.arg]
        IN  \E F \in SerializedLengths(pformat) :
                /\ cbHeader(pformat) = 28 + F
                /\ Len(HeaderBytes(pformat)) = cbHeader(pformat)
                /\ Len(NewSends) = 1
                /\ Len(NewSends[1].bytes) = 28 + F
                /\ Values(NewSends[1].bytes) = HeaderBytes(pformat)
                /\ Values(NewSends[1].bytes) = DescribedHeader(FormatMemory(pformat), F)

\* The layout of C19 for the descriptors without extension bytes, where the code
\* keeps it: F = 16, a header of 44 bytes.
C19_LayoutWithoutExtension ==
    /\ \A p \in 1..Len(FormatTable) :
           LET pformat == FormatTable[p]
           IN  pformat.cbSize = 0 =>
                   /\ cbHeader(pformat) = 44
                   /\ Len(HeaderBytes(pformat)) = cbHeader(pformat)
                   /\ HeaderBytes(pformat) = DescribedHeader(FormatMemory(pformat), 16)
    /\ (LastHeaderPassedThrough /\ FormatTable[lastOp.arg].cbSize = 0) =>
           /\ Len(NewSends) = 1
           /\ Values(NewSends[1].bytes) = DescribedHeader(FormatMemory(FormatTable[lastOp.arg]), 16)

\* C19's failure: the extended descriptor has 20 serialized bytes, two of them
\* its extension; its header reached the transport as one transmission of 46
\* bytes, not 48: it declares a descriptor of 18 bytes whose cbSize field says 2,
\* and the data tag follows where the extension bytes should be.
C19_Witness ==
    /\ LastHeaderPassedThrough /\ lastOp.arg = pFmtExt
    /\ SerializedLengths(FormatTable[pFmtExt]) = {20}
    /\ Len(NewSends) = 1 /\ Len(NewSends[1].bytes) = 46
    /\ NewSends[1].bytes[17].v = 18
    /\ NewSends[1].bytes[37].v = 2 /\ NewSends[1].bytes[38].v = 0
    /\ Values(SubSeq(NewSends[1].bytes, 39, 42)) = <<100, 97, 116, 97>>

\* The capacity the format in force gives, once the last call has returned.
CapacityInForce ==
    IF lastOp.op = "SetFormat" /\ lastOp.arg # nullptr
    THEN PreferedBufferSize(FormatTable[lastOp.arg])
    ELSE lastOp.pref

\* The last call handed bytes to the writer, with a format of non-zero capacity
\* set by it or before it; it was not a flush request and it returned.
LastWroteUnderFormat ==
    /\ m_fUseBufferedImplementation
    /\ lastOp.op \in {"SetFormat", "ProcessAudio"}
    /\ IsUspHandleValid(lastOp.handle) /\ ~lastOp.threw
    /\ LastWritten > 0
    /\ CapacityInForce > 0

\* C20: in buffered mode, with a format of capacity C > 0 set, every
\* ::UspWriteAudio call made by a write (header writes included) carries exactly
\* C bytes.
C20_FixedSize ==
    LastWroteUnderFormat =>
        \A i \in 1..Len(NewSends) : Len(NewSends[i].bytes) = CapacityInForce

\* C20's failure: the first SetFormat of a session, with a descriptor of capacity
\* 2, sent its 44 header bytes as one transmission of their own.
C20_Witness ==
    /\ LastWroteUnderFormat
    /\ lastOp.op = "SetFormat" /\ lastOp.arg = pFmtA /\ lastOp.pref = 0
    /\ m_servicePreferedBufferSize = 2
    /\ Len(NewSends) = 1 /\ Len(NewSends[1].bytes) = 44
    /\ m_buffer.isNull

\* The last call was a buffered write of n > 0 bytes that found the buffer
\* released, and it returned.
LastWriteAllocated ==
    /\ lastOp.op \in {"SetFormat", "ProcessAudio"}
    /\ lastOp.op = "SetFormat" => IsUspHandleValid(lastOp.handle)
    /\ LastWasBuffered /\ LastWritten > 0
    /\ lastOp.isNull /\ ~lastOp.threw /\ ~hung

\* C21: a flush that finds k > 0 bytes held makes exactly one ::UspWriteAudio call,
\* carrying those k bytes, and leaves the buffer released; a buffered write that
\* finds the buffer released allocates it at the preferred size then in force, and
\* what it holds and sends are bytes of that write only.
C21_FlushReleases ==
    /\ (LastWasFlush /\ lastOp.fill > 0 /\ ~lastOp.threw) =>
           /\ Len(NewSends) = 1
           /\ NewSends[1].bytes = lastOp.held
           /\ Len(NewSends[1].bytes) = lastOp.fill
           /\ BufferReleased
    /\ LastWriteAllocated =>
           LET first == nextId - LastWritten
           IN  /\ ~m_buffer.isNull
               /\ m_bytesInBuffer = lastOp.pref
               /\ Len(m_buffer.mem) = lastOp.pref
               /\ \A i \in 1..Fill : Held[i].id >= first
               /\ \A j \in 1..Len(NewSends) : \A i \in 1..Len(NewSends[j].bytes) :
                      NewSends[j].bytes[i].id >= first

\* C21's failure: a flush found one byte held in a buffer of capacity 2 while the
\* dump file was not open; it sent the byte in one call and the process died in
\* DumpFileWrite with the buffer not released.
C21_Witness ==
    /\ LastWasFlush /\ ~lastOp.threw
    /\ lastOp.fill = 1 /\ lastOp.cap = 2 /\ ~lastOp.isNull
    /\ Len(NewSends) = 1 /\ NewSends[1].bytes = lastOp.held
    /\ NewSends[1].hr = SPX_NOERROR
    /\ crashed /\ ~IsStream(m_hfile)
    /\ ~BufferReleased /\ Fill = 1

\* C22: a handler leaves the session handle, the preferred buffer size, the buffer,
\* its capacity, cursor and remaining capacity as they were and makes no
\* ::UspWriteAudio call, as does the arrival of a message; SetFormat and
\* ProcessAudio deliver no event to the site.
C22_DisjointState ==
    [][/\ (cb # NoMsg /\ cb' = NoMsg) =>
              /\ sink' # sink
              /\ UNCHANGED << m_handle, m_servicePreferedBufferSize, m_buffer,
                              m_bytesInBuffer, m_ptrIntoBuffer, m_bytesLeftInBuffer >>
              /\ UNCHANGED << sent, nextId >>
       /\ (cb = NoMsg /\ cb' # NoMsg) => UNCHANGED << adapter, sent, sink >>
       /\ nWrites' # nWrites => UNCHANGED << sink, cb, arrived >>]_vars

\* C22's case: an event was delivered before the last write began and another
\* after it returned, the write having left a byte in the buffer that is still
\* there, with the one transmission made so far.
C22_Witness ==
    /\ lastOp.op = "ProcessAudio" /\ ~lastOp.threw /\ IsUspHandleValid(lastOp.handle)
    /\ lastOp.nsink > 0 /\ Len(sink) > lastOp.nsink
    /\ cb = NoMsg
    /\ ~m_buffer.isNull /\ Fill = 1 /\ Held[1].id = nextId - 1
    /\ Len(sent) = lastOp.nsent

\* C23: as long as no write has failed, the remaining capacity is between 0 and
\* the capacity, the cursor is capacity - remaining capacity bytes from the start
\* of the buffer and within it, and the buffer is unallocated exactly when the
\* capacity and the remaining capacity are 0 and the cursor is null.
C23_WriterConsistent ==
    (~wrThrew /\ ~hung) =>
        /\ 0 <= m_bytesLeftInBuffer /\ m_bytesLeftInBuffer <= m_bytesInBuffer
        /\ m_buffer.isNull <=>
               (m_bytesInBuffer = 0 /\ m_ptrIntoBuffer = NULLPTR /\ m_bytesLeftInBuffer = 0)
        /\ ~m_buffer.isNull =>
               /\ Len(m_buffer.mem) = m_bytesInBuffer
               /\ m_ptrIntoBuffer = m_bytesInBuffer - m_bytesLeftInBuffer
               /\ m_ptrIntoBuffer <= Len(m_buffer.mem)

\* C23's case: a write wrapped around a buffer of capacity 3 and left it part
\* filled: cursor 2, one byte of capacity remaining.
C23_Witness ==
    /\ lastOp.op \in {"SetFormat", "ProcessAudio"} /\ ~wrThrew /\ ~hung
    /\ LastWasBuffered /\ Len(NewSends) > 0
    /\ ~m_buffer.isNull /\ m_bytesInBuffer = 3
    /\ m_ptrIntoBuffer = 2 /\ m_bytesLeftInBuffer = 1

\* The number of bytes handed to ::UspWriteAudio so far.
RECURSIVE SentCount(_)
SentCount(n) == IF n = 0 THEN 0 ELSE SentCount(n - 1) + Len(sent[n].bytes)

\* C24: as long as no write has failed, the bytes handed to ::UspWriteAudio plus
\* the bytes held in the buffer are as many as the writer accepted (header lengths
\* plus ProcessAudio sizes).
C24_Conservation ==
    (~wrThrew /\ ~hung) => SentCount(Len(sent)) + Len(HeldBytes) = nextId - 1

\* C24's case: a header and audio were accepted in buffered mode; the last write
\* made the buffer wrap, so that some of its bytes were sent and some are held.
C24_Witness ==
    /\ lastOp.op = "ProcessAudio" /\ lastOp.arg = 2 /\ ~wrThrew /\ ~hung
    /\ LastWasBuffered /\ lastOp.fill > 0
    /\ Len(NewSends) = 1 /\ Len(NewSends[1].bytes) = lastOp.cap
    /\ Fill > 0
    /\ nextId - 1 > 44

\* C25: whenever the buffer is allocated and no write has failed, its capacity is
\* the preferred size of the most recent format SetFormat was given.
C25_CapacityFollowsFormat ==
    (~m_buffer.isNull /\ ~wrThrew /\ ~hung) =>
        m_bytesInBuffer = m_servicePreferedBufferSize

\* C25's failure: SetFormat with a format of preferred size 3 returned, and the
\* buffer is allocated with the capacity 2 of the format set before it.
C25_Witness ==
    /\ lastOp.op = "SetFormat" /\ lastOp.arg = pFmtB /\ ~lastOp.threw
    /\ IsUspHandleValid(lastOp.handle) /\ ~wrThrew /\ ~hung
    /\ lastOp.pref = PreferedBufferSize(FmtA)
    /\ m_servicePreferedBufferSize = PreferedBufferSize(FmtB)
    /\ ~m_buffer.isNull /\ m_bytesInBuffer = 2 /\ Len(m_buffer.mem) = 2

\* The session was created for the custom-model endpoint variant.
IsCris(h) ==
    sessions[h].calls[1].fn = "UspInit" /\ sessions[h].calls[1].a = "USP_ENDPOINT_CRIS"

\* C26: a session that Init connected for the custom-model variant had
\* ::UspSetModelId called before ::UspConnect, with the non-empty model id that
\* selected the variant; and ::UspSetModelId is called only on sessions created for
\* the custom-model variant.
C26_ModelIdWithVariant ==
    \A h \in 1..Len(sessions) :
        LET p == sessions[h].properties
            calls == sessions[h].calls
        IN  PropNames \subseteq DOMAIN p =>
                /\ (IsCris(h) /\ sessions[h].connected) =>
                       \E i \in 1..Len(calls) :
                           /\ calls[i].fn = "UspSetModelId"
                           /\ calls[i].a # ""
                           /\ calls[i].a = p["CUSTOMSPEECH-modelId"]
                           /\ \E j \in (i + 1)..Len(calls) : calls[j].fn = "UspConnect"
                /\ Called(h, "UspSetModelId") => IsCris(h)

\* C26's failure: with CUSTOMSPEECH-modelId set and CUSTOMSPEECH-ModelId not set,
\* Init returned with the session connected for the custom-model variant and
\* ::UspSetModelId never called.
C26_Witness ==
    /\ lastOp.op = "Init" /\ ~lastOp.threw /\ IsUspHandleValid(m_handle)
    /\ PropNames \subseteq DOMAIN sessions[m_handle].properties
    /\ sessions[m_handle].properties["CUSTOMSPEECH-modelId"] = "m1"
    /\ sessions[m_handle].properties["CUSTOMSPEECH-ModelId"] = ""
    /\ IsCris(m_handle) /\ IsConnected(m_handle)
    /\ Called(m_handle, "UspConnect") /\ ~Called(m_handle, "UspSetModelId")

\* C27: no write is caught in the loop of UspWrite_Buffered: a flush makes at most
\* one ::UspWriteAudio call (it leaves the loop in its first iteration) and a write
\* of n > 0 bytes at most n (an iteration that does not leave consumes a byte).
C27_WriteTerminates ==
    /\ ~hung
    /\ LastWasFlush => Len(NewSends) <= 1
    /\ (lastOp.op \in {"SetFormat", "ProcessAudio"} /\ LastWritten > 0) =>
           Len(NewSends) <= LastWritten

\* C27's failure: a ProcessAudio of n > 0 bytes found the buffer allocated with
\* capacity 0 and a preferred size above 0; it makes no transport call and its loop
\* consumes no byte.
C27_Witness ==
    /\ hung
    /\ lastOp.op = "ProcessAudio" /\ lastOp.arg > 0
    /\ ~lastOp.isNull /\ lastOp.cap = 0 /\ lastOp.pref > 0
    /\ Len(NewSends) = 0
    /\ ~m_buffer.isNull /\ m_bytesInBuffer = 0 /\ m_bytesLeftInBuffer = 0

====
